---- MODULE Spec2Model ----
(***************************************************************************)
(* A model of package exphttp's windowed accumulators: RateCounter         *)
(* (ratecounter.go) and MovingAverage (moving_average.go).                 *)
(*                                                                         *)
(* Every shared-memory access of the Go code is one step: a plain read or  *)
(* write of a field, or one sync/atomic call.  Producers (Add), one reader *)
(* (Rate / Average) and the rotation goroutine interleave freely.  Where   *)
(* Go leaves the order of two operand evaluations open, both orders are    *)
(* steps of the model.                                                     *)
(*                                                                         *)
(* The fields index, others, otherSums and otherCounts are read and        *)
(* written without synchronisation.  They are one machine word each; a     *)
(* racing read is taken to return the value the field holds at the moment  *)
(* of the read (which is the old or the new value, depending on where the  *)
(* read falls among the other goroutines' steps).                          *)
(*                                                                         *)
(* int64 arithmetic is modelled on the integers: the values of the model   *)
(* stay far from the 64-bit range.                                         *)
(***************************************************************************)
EXTENDS Integers, Sequences, FiniteSets

\* ---------------------------------------------------------------- bounds
NumProducers == 2
\* Add calls of a run in which the ticker fires (RateCounter, no reader)
MaxAdds == 2
\* Add calls of a run in which the ticker never fires (both types, no reader)
MaxQuietAdds == 4
\* Add calls and Rate()/Average() calls of a run with the reader
MaxAddsRead == 2
MaxAvgAddsRead == 1
MaxReads == 1
\* Add calls of a run that ends in String()
MaxTextAdds == 1
\* Add calls on a cumulative MovingAverage with a reader
MaxCumAdds == 2
MaxGran == 3
\* goroutines of the HTTP server that call ExpHandler.ServeHTTP, and the calls
\* they make in all
NumHandlers == 2
MaxServes == 3
\* connections served by one ExpRPCServer, and the requests they send in all
NumConns == 2
MaxCalls == 3
MaxInterval == 4

Producers == 1..NumProducers
\* interval arguments (nanoseconds): non-positive, shorter than gran, longer
Intervals == {-1, 0, 1, MaxInterval}
\* granularity arguments
Grans == -1..MaxGran
\* values handed to RateCounter.Add and to MovingAverage.Add
RateVals == {1, 2}
AvgVals == {-3, 2}
\* values added before a String() call: negative, zero, several digits
TextVals == {-105, -8, 0, 10, 99}

VARIABLES
    kind,        \* "RateCounter" or "MovingAverage": the type constructed
    interval,    \* constructor argument
    gran,        \* constructor argument, captured by the rotation goroutine
    index,       \* field index (both types)
    bins,        \* RateCounter.bins
    others,      \* RateCounter.others
    sums,        \* MovingAverage.sums
    counts,      \* MovingAverage.counts
    otherSums,   \* MovingAverage.otherSums
    otherCounts, \* MovingAverage.otherCounts
    rot,         \* the rotation goroutine: position and locals
    prod,        \* each producer's Add call: position and locals
    rd,          \* the reader's Rate()/Average() call: position and locals
    quota,       \* Add calls the producers may still start
    reads,       \* Rate()/Average() calls the reader may still start
    added,       \* history: sum of the values whose Add has completed
    addedN,      \* history: number of Add calls completed
    rotated,     \* history: a tick has been taken
    overlap,     \* history: some Add was in progress during a rotation step
    hist,        \* history: per bucket period, the sum added (1 = current)
    sinceAdd,    \* history: ticks taken since the last Add completed (at most gran)
    need,        \* history: per cell, what the running Rate() must include
    txt,         \* the String() call: the value rendered and its text
    snap,        \* history: the fields as the running tick found them, while
                 \* no Add has overlapped it
    stats,       \* ExpHandler.Stats: the expvar.Int entries, by key
    published,   \* ExpHandler.Stats: the RateCounter entries, by key
    didInit,     \* ExpHandler.didInit
    reqCounters, \* ExpHandler.reqCounters
    respCounters, \* ExpHandler.respCounters
    rcAdds,      \* per RateCounter made by init(): the Add(1) calls it received
    srv,         \* each serving goroutine's ServeHTTP call: position and locals
    serves,      \* ServeHTTP calls that may still start
    served,      \* history: ServeHTTP calls that returned
    handlerPanics, \* history: HandlerFunc calls that panicked
    inits,       \* history: calls of init()
    startTimes,  \* ExpRPCServer.startTimes
    rates,       \* ExpRPCServer.rates: per method, its RateCounter (0: none)
    rateAdds,    \* per RateCounter made by recordRequest: the Add(1) calls
    rpcStats,    \* the package's rpcStats entries, by key
    now,         \* the clock time.Now() reads, in ticks
    conn,        \* per connection: its request loop, its response in progress,
                 \* and its requests awaiting a response
    calls        \* requests that may still arrive

vars == <<kind, interval, gran, index, bins, others, sums, counts, otherSums,
          otherCounts, rot, prod, rd, quota, reads, added, addedN, rotated, overlap,
          hist, sinceAdd, need, txt, snap, stats, published, didInit,
          reqCounters, respCounters, rcAdds, srv, serves, served, handlerPanics,
          inits, startTimes, rates, rateAdds, rpcStats, now, conn, calls>>

counterVars == <<kind, interval, gran, index, bins, others, sums, counts,
                 otherSums, otherCounts, rot, prod, rd, quota, reads, added, addedN,
                 rotated, overlap, hist, sinceAdd, need, txt, snap>>
handlerVars == <<stats, published, didInit, reqCounters, respCounters, rcAdds,
                 srv, serves, served, handlerPanics, inits>>
rpcVars == <<startTimes, rates, rateAdds, rpcStats, now, conn, calls>>
rateFields == <<bins, others>>
avgFields == <<sums, counts, otherSums, otherCounts>>
ghosts == <<added, addedN, rotated, overlap, hist, sinceAdd, need>>

\* ------------------------------------------------------------- helpers
RECURSIVE SumCells(_, _)
SumCells(f, n) == IF n = 0 THEN 0 ELSE f[n - 1] + SumCells(f, n - 1)

RECURSIVE SumSeq(_)
SumSeq(s) == IF s = <<>> THEN 0 ELSE Head(s) + SumSeq(Tail(s))

Min(a, b) == IF a < b THEN a ELSE b

Abs(a) == IF a < 0 THEN -a ELSE a

\* make([]int64, n): n zeroed cells, indexed from 0
MakeCells(n) == [c \in 0..(n - 1) |-> 0]

\* ------------------------------------------------- construction (both)
\* a variant that lets granularity 1 start a rotation goroutine
IsDegenerateBelowOne(iv, g) == iv <= 0 \/ g < 1

\* the test that selects the single-bucket instance with no goroutine
IsDegenerate(iv, g) == iv <= 0 \/ g <= 1

NumBuckets(iv, g) == IF IsDegenerate(iv, g) THEN 1 ELSE g

\* interval / time.Duration(gran): int64 division, both operands positive
TickerPeriod(iv, g) == iv \div g

\* time.NewTicker(d) panics when d <= 0
NewTickerPanics(d) == d <= 0

\* a variant that stores the operand instead of adding it
AtomicStoreInstead(cells, k, v) == [cells EXCEPT ![k] = v]

\* a variant that leaves the cell as it is
SwapKeeps(cells, k, v) == cells

\* sync/atomic on one cell
AtomicAddInt64(cells, k, v) == [cells EXCEPT ![k] = @ + v]
SwapInt64(cells, k, v) == [cells EXCEPT ![k] = v]
LoadInt64(cells, k) == cells[k]

\* a variant that does not wrap around
NextIndexNoWrap(idx, g) == idx + 1

\* r.index = (r.index + 1) % gran
NextIndex(idx, g) == (idx + 1) % g

\* a variant that rounds toward minus infinity
QuoFloor(a, b) == a \div b

\* Go's int64 quotient a / b for b # 0: truncated toward zero
Quo(a, b) == IF (a < 0) = (b < 0) THEN Abs(a) \div Abs(b)
             ELSE -(Abs(a) \div Abs(b))

\* a variant that never takes the evicted bucket out of the carry
FoldNoEvict(o, old, swapped) == o + old

\* r.others += r.bins[i] - atomic.SwapInt64(...)
Fold(o, old, swapped) == o + old - swapped

\* a panic in any goroutine ends the process
Crashed == rot.pc = "panicked" \/ rd.pc = "panicked"
Alive == ~Crashed

IdleProd == [pc |-> "idle", idx |-> 0, val |-> 0, n |-> 0]
\* (afterAdd is history: some Add had completed when the call was made)
IdleRd == [pc |-> "idle", got |-> {}, o |-> 0, idx |-> 0, b |-> 0,
           s |-> 0, c |-> 0, res |-> 0, n |-> 0, afterAdd |-> FALSE]
\* the goroutine's locals are dead between two ticks
WaitRot == [pc |-> "wait", i |-> 0, old |-> 0, s |-> 0, n |-> 0]
NewRot(iv, g) == [WaitRot EXCEPT !.pc = IF IsDegenerate(iv, g) THEN "none"
                                        ELSE "start"]

\* a variant in which Add waits for a running rotation step to end
AtStepLocked(p, pos) == prod[p].pc = pos /\ rot.pc \in {"none", "start", "wait"}

\* producer p is inside Add, about to take the step at position pos; nothing
\* else in Add (no lock, no channel, no loop) decides whether it may proceed
AtStep(p, pos) == prod[p].pc = pos

AddInProgress == \E p \in Producers : prod[p].pc # "idle"
RotInProgress == rot.pc \notin {"none", "start", "wait", "panicked"}

\* ------------------------------------------------------ String (both)
DigitChar == <<"0", "1", "2", "3", "4", "5", "6", "7", "8", "9">>

\* the decimal digits of n >= 0, most significant first, no padding
RECURSIVE Digits(_)
Digits(n) == IF n < 10 THEN <<DigitChar[n + 1]>>
             ELSE Digits(n \div 10) \o <<DigitChar[(n % 10) + 1]>>

\* a variant that drops the sign
FormatIntUnsigned(v) == Digits(Abs(v))

\* strconv.FormatInt(v, 10)
FormatInt(v) == IF v < 0 THEN <<"-">> \o Digits(-v) ELSE Digits(v)

DigitValue(c) == CHOOSE d \in 0..9 : DigitChar[d + 1] = c

IsDigit(c) == \E d \in 0..9 : DigitChar[d + 1] = c

RECURSIVE DigitsValue(_)
DigitsValue(s) ==
    IF s = <<>> THEN 0
    ELSE 10 * DigitsValue(SubSeq(s, 1, Len(s) - 1)) + DigitValue(s[Len(s)])

\* the text as an integer, read the way a decimal integer parser reads it
\* (an optional sign, then one or more digits); "error" for any other text
ParseInt(s) ==
    LET signed == s # <<>> /\ s[1] \in {"-", "+"}
        body == IF signed THEN Tail(s) ELSE s
    IN  IF body = <<>> \/ \E k \in 1..Len(body) : ~IsDigit(body[k])
        THEN "error"
        ELSE IF signed /\ s[1] = "-" THEN -DigitsValue(body)
        ELSE DigitsValue(body)

NoText == [pc |-> "idle", v |-> 0, s |-> <<>>]

NoSnap == [clean |-> FALSE, bins |-> <<>>, others |-> 0, index |-> 0]

\* -------------------------------------------------------- ExpHandler
Handlers == 1..NumHandlers

\* the keys of Durations as NewExpHandler sets it: {"min": time.Minute}
Labels == {"min"}

\* status codes a HandlerFunc returns: one per case of the switch and one for
\* its default
Codes == {200, 400, 401, 404, 500}

\* the key the switch of ServeHTTP counts a status code under
CodeKey(code) ==
    CASE code = 200 -> "responses.200"
      [] code = 400 -> "responses.400"
      [] code = 401 -> "responses.401"
      [] code = 500 -> "responses.500"
      [] OTHER -> "responses.404"

\* the expvar.Int entries of Stats (an absent entry counts as 0; the
\* total_ns entries, which hold elapsed times, are left out)
StatKeys == {"requests", "responses", "panics"} \cup {CodeKey(c) : c \in Codes}

\* the RateCounter entries of Stats: "requests_per_" + key, "responses_per_" + key
ReqKey(l) == <<"requests_per_", l>>
RespKey(l) == <<"responses_per_", l>>
PubKeys == {ReqKey(l) : l \in Labels} \cup {RespKey(l) : l \in Labels}

IdleSrv == [pc |-> "idle", todo |-> {}, key |-> "", r1 |-> 0, r2 |-> 0, code |-> 0]

\* NewExpHandler(name, h), as it returns; 0 stands for no RateCounter
InitHandlerWith(q) ==
    /\ stats = [k \in StatKeys |-> 0]
    /\ published = [k \in PubKeys |-> 0]
    /\ didInit = FALSE
    /\ reqCounters = <<>>
    /\ respCounters = <<>>
    /\ rcAdds = <<>>
    /\ srv = [h \in Handlers |-> IdleSrv]
    /\ serves = q
    /\ served = 0
    /\ handlerPanics = 0
    /\ inits = 0

\* if !e.didInit
NeedsInit(h) == ~didInit

\* expvar.Map.Add(key, delta)
StatsAdd(m, key, delta) == [m EXCEPT ![key] = @ + delta]

\* rc.Add(1) for every rc of the slice
AddToAll(adds, slice) ==
    [c \in DOMAIN adds |->
        adds[c] + Cardinality({k \in DOMAIN slice : slice[k] = c})]

\* ------------------------------------------------------ ExpRPCServer
Conns == 1..NumConns

\* the ServiceMethod of the requests
Methods == {"Svc.Do"}

\* the zero time.Time, which a map read of an absent key yields
ZeroTime == -1

\* the keys of rpcStats, as tuples of the strings the code concatenates (the
\* total_ns entries, which hold elapsed times, are left out); the per_min
\* entries stand for the Add(1) calls reqRate and respRate received
RpcStatKeys == {<<"requests.per_min">>, <<"responses.per_min">>, <<"requests">>,
                <<"responses">>, <<"responses.error">>}
               \cup {<<"requests.", m>> : m \in Methods}
               \cup {<<"responses.", m>> : m \in Methods}
               \cup {<<"responses.", m, ".error">> : m \in Methods}

\* no request being read, no response being recorded, nothing pending; the
\* first request of a connection carries Seq 0
IdleConn == [rpc |-> "idle", seq |-> 0, method |-> "", rc |-> 0, next |-> 0,
             wpc |-> "idle", wseq |-> 0, wat |-> 0, wmethod |-> "",
             werr |-> FALSE, from |-> 0, pending |-> {}]

\* NewRPCServer(srv), as it returns (the first one of the process)
InitRPCWith(q) ==
    /\ startTimes = <<>>
    /\ rates = [m \in Methods |-> 0]
    /\ rateAdds = <<>>
    /\ rpcStats = [k \in RpcStatKeys |-> 0]
    /\ now = 0
    /\ conn = [c \in Conns |-> IdleConn]
    /\ calls = q

\* the key of startTimes: r.Seq alone
SeqKey(c, seq) == seq

\* w.startTimes[key] = t
MapStore(m, key, t) == [k \in DOMAIN m \cup {key} |-> IF k = key THEN t ELSE m[k]]

\* w.startTimes[key]
MapLoad(m, key) == IF key \in DOMAIN m THEN m[key] ELSE ZeroTime

\* delete(w.startTimes, key)
MapDelete(m, key) == [k \in DOMAIN m \ {key} |-> m[k]]

\* ------------------------------------------------------- RateCounter
\* NewRateCounterWithGranularity(interval, gran), as it returns
InitRateWith(q, r) ==
    \E iv \in Intervals, g \in Grans :
        /\ kind = "RateCounter"
        /\ interval = iv
        /\ gran = g
        /\ index = 0
        /\ bins = MakeCells(NumBuckets(iv, g))
        /\ others = 0
        /\ sums = MakeCells(0)
        /\ counts = MakeCells(0)
        /\ otherSums = 0
        /\ otherCounts = 0
        /\ rot = NewRot(iv, g)
        /\ prod = [p \in Producers |-> IdleProd]
        /\ rd = IdleRd
        /\ quota = q
        /\ reads = r
        /\ added = 0
        /\ addedN = 0
        /\ rotated = FALSE
        /\ overlap = FALSE
        /\ hist = [k \in 1..NumBuckets(iv, g) |-> 0]
        /\ sinceAdd = 0
        /\ need = MakeCells(NumBuckets(iv, g))
        /\ txt = NoText
        /\ snap = NoSnap
        /\ InitHandlerWith(0)
        /\ InitRPCWith(0)

\* Rate(), evaluated in one piece
Rate == others + LoadInt64(bins, index)

\* the goroutine's first statement: t := time.NewTicker(interval / gran)
StartTicker ==
    /\ Alive
    /\ rot.pc = "start"
    /\ rot' = [rot EXCEPT !.pc = IF NewTickerPanics(TickerPeriod(interval, gran))
                                 THEN "panicked" ELSE "wait"]
    /\ UNCHANGED <<rpcVars, handlerVars, snap, txt, kind, interval, gran, index, rateFields, avgFields, prod, rd,
                   quota, reads, ghosts>>

\* a tick arrives on t.C: i = r.index
RateTick ==
    /\ Alive
    /\ kind = "RateCounter"
    /\ rot.pc = "wait"
    /\ rot' = [rot EXCEPT !.pc = "adv", !.i = index]
    /\ rotated' = TRUE
    /\ overlap' = (overlap \/ AddInProgress)
    /\ hist' = [k \in 1..Len(hist) |-> IF k = 1 THEN 0 ELSE hist[k - 1]]
    /\ sinceAdd' = Min(sinceAdd + 1, gran)
    /\ snap' = IF AddInProgress THEN NoSnap
             ELSE [clean |-> TRUE, bins |-> bins, others |-> others,
                   index |-> index]
    /\ UNCHANGED <<rpcVars, handlerVars, txt, kind, interval, gran, index, rateFields, avgFields, prod, rd,
                   quota, reads, added, addedN, need>>

\* r.index = (r.index + 1) % gran
RateAdvance ==
    /\ Alive
    /\ kind = "RateCounter"
    /\ rot.pc = "adv"
    /\ index' = NextIndex(index, gran)
    /\ rot' = [rot EXCEPT !.pc = "fold"]
    /\ UNCHANGED <<rpcVars, handlerVars, snap, txt, kind, interval, gran, rateFields, avgFields, prod, rd, quota, reads,
                   ghosts>>

\* the operand r.bins[i] of line 50: a plain read, before or after the swap
RateReadOld ==
    /\ Alive
    /\ kind = "RateCounter"
    /\ rot.pc \in {"fold", "foldS"}
    /\ rot' = [rot EXCEPT !.pc = IF rot.pc = "fold" THEN "foldR" ELSE "foldRS",
                          !.old = bins[rot.i]]
    /\ UNCHANGED <<rpcVars, handlerVars, snap, txt, kind, interval, gran, index, rateFields, avgFields, prod, rd,
                   quota, reads, ghosts>>

\* the operand atomic.SwapInt64(&r.bins[r.index], 0) of line 50
RateSwap ==
    /\ Alive
    /\ kind = "RateCounter"
    /\ rot.pc \in {"fold", "foldR"}
    /\ rot' = [rot EXCEPT !.pc = IF rot.pc = "fold" THEN "foldS" ELSE "foldRS",
                          !.s = LoadInt64(bins, index)]
    /\ bins' = SwapInt64(bins, index, 0)
    /\ need' = [need EXCEPT ![index] = 0]
    /\ UNCHANGED <<rpcVars, handlerVars, snap, txt, kind, interval, gran, index, others, avgFields, prod, rd,
                   quota, reads, added, addedN, rotated, overlap, hist, sinceAdd>>

\* the assignment of line 50: r.others = r.others + (r.bins[i] - swapped)
RateFold ==
    /\ Alive
    /\ kind = "RateCounter"
    /\ rot.pc = "foldRS"
    /\ others' = Fold(others, rot.old, rot.s)
    /\ rot' = WaitRot
    /\ snap' = NoSnap
    /\ UNCHANGED <<rpcVars, handlerVars, txt, kind, interval, gran, index, bins, avgFields, prod, rd, quota,
                   reads, ghosts>>

\* Add(val): the index expression r.index of line 59, a plain read
RateAddIndex(p, v) ==
    /\ Alive
    /\ kind = "RateCounter"
    /\ prod[p].pc = "idle"
    /\ quota > 0
    /\ quota' = quota - 1
    /\ prod' = [prod EXCEPT ![p] = [pc |-> "add", idx |-> index, val |-> v,
                                    n |-> 1]]
    /\ overlap' = (overlap \/ RotInProgress)
    /\ snap' = IF RotInProgress THEN NoSnap ELSE snap
    /\ UNCHANGED <<rpcVars, handlerVars, txt, kind, interval, gran, index, rateFields, avgFields, rot, rd,
                   reads, added, addedN, rotated, hist, sinceAdd, need>>

\* Add(val): atomic.AddInt64(&r.bins[idx], val), and the call returns
RateAddAtomic(p) ==
    /\ Alive
    /\ kind = "RateCounter"
    /\ AtStep(p, "add")
    /\ bins' = AtomicAddInt64(bins, prod[p].idx, prod[p].val)
    /\ prod' = [prod EXCEPT ![p] = IdleProd]
    /\ added' = added + prod[p].val
    /\ addedN' = addedN + 1
    /\ hist' = [hist EXCEPT ![1] = @ + prod[p].val]
    /\ sinceAdd' = 0
    /\ UNCHANGED <<rpcVars, handlerVars, snap, txt, kind, interval, gran, index, others, avgFields, rot, rd, quota, reads,
                   rotated, overlap, need>>

\* Rate() is called: what it must include is what completed Adds left in the
\* cells (history only; no memory access yet)
RateCall ==
    /\ Alive
    /\ kind = "RateCounter"
    /\ rd.pc \in {"idle", "done"}
    /\ reads > 0
    /\ reads' = reads - 1
    /\ rd' = [IdleRd EXCEPT !.pc = "run"]
    /\ need' = bins
    /\ UNCHANGED <<rpcVars, handlerVars, snap, txt, kind, interval, gran, index, rateFields, avgFields, rot, prod,
                   quota, added, addedN, rotated, overlap, hist, sinceAdd>>

\* Rate(): the operand r.others, a plain read; Go leaves its order relative to
\* the call atomic.LoadInt64 (and to that call's argument) unspecified
RateReadOthers ==
    /\ Alive
    /\ kind = "RateCounter"
    /\ rd.pc = "run"
    /\ "o" \notin rd.got
    /\ rd' = [rd EXCEPT !.got = @ \cup {"o"}, !.o = others, !.n = @ + 1]
    /\ UNCHANGED <<rpcVars, handlerVars, snap, txt, kind, interval, gran, index, rateFields, avgFields, rot, prod,
                   quota, reads, ghosts>>

\* Rate(): the index expression r.index, a plain read
RateReadIndex ==
    /\ Alive
    /\ kind = "RateCounter"
    /\ rd.pc = "run"
    /\ "i" \notin rd.got
    /\ rd' = [rd EXCEPT !.got = @ \cup {"i"}, !.idx = index, !.n = @ + 1]
    /\ UNCHANGED <<rpcVars, handlerVars, snap, txt, kind, interval, gran, index, rateFields, avgFields, rot, prod,
                   quota, reads, ghosts>>

\* Rate(): atomic.LoadInt64(&r.bins[idx])
RateLoad ==
    /\ Alive
    /\ kind = "RateCounter"
    /\ rd.pc = "run"
    /\ "i" \in rd.got
    /\ "b" \notin rd.got
    /\ rd' = [rd EXCEPT !.got = @ \cup {"b"}, !.b = LoadInt64(bins, rd.idx),
                        !.n = @ + 1]
    /\ UNCHANGED <<rpcVars, handlerVars, snap, txt, kind, interval, gran, index, rateFields, avgFields, rot, prod,
                   quota, reads, ghosts>>

\* Rate(): the sum is returned
RateReturn ==
    /\ Alive
    /\ kind = "RateCounter"
    /\ rd.pc = "run"
    /\ rd.got = {"o", "i", "b"}
    /\ rd' = [IdleRd EXCEPT !.pc = "done", !.res = rd.o + rd.b, !.n = rd.n]
    /\ UNCHANGED <<rpcVars, handlerVars, snap, txt, kind, interval, gran, index, rateFields, avgFields, rot, prod,
                   quota, reads, ghosts>>

\* ----------------------------------------------------- MovingAverage
\* NewMovingAverageWithGranularity(interval, gran), as it returns
InitAvgWith(q, r) ==
    \E iv \in Intervals, g \in Grans :
        /\ kind = "MovingAverage"
        /\ interval = iv
        /\ gran = g
        /\ index = 0
        /\ bins = MakeCells(0)
        /\ others = 0
        /\ sums = MakeCells(NumBuckets(iv, g))
        /\ counts = MakeCells(NumBuckets(iv, g))
        /\ otherSums = 0
        /\ otherCounts = 0
        /\ rot = NewRot(iv, g)
        /\ prod = [p \in Producers |-> IdleProd]
        /\ rd = IdleRd
        /\ quota = q
        /\ reads = r
        /\ added = 0
        /\ addedN = 0
        /\ rotated = FALSE
        /\ overlap = FALSE
        /\ hist = <<>>
        /\ sinceAdd = 0
        /\ need = MakeCells(0)
        /\ txt = NoText
        /\ snap = NoSnap
        /\ InitHandlerWith(0)
        /\ InitRPCWith(0)

\* a variant without the test
ZeroGuardMissing(n) == FALSE

\* if n == 0 { return 0 }
ZeroGuard(n) == n = 0

\* Average(), evaluated in one piece
Average ==
    LET s == LoadInt64(sums, index) + otherSums
        n == LoadInt64(counts, index) + otherCounts
    IN  IF ZeroGuard(n) THEN 0 ELSE Quo(s, n)

\* a tick arrives on t.C: i = r.index
AvgTick ==
    /\ Alive
    /\ kind = "MovingAverage"
    /\ rot.pc = "wait"
    /\ rot' = [rot EXCEPT !.pc = "adv", !.i = index]
    /\ rotated' = TRUE
    /\ UNCHANGED <<rpcVars, handlerVars, snap, txt, kind, interval, gran, index, rateFields, avgFields, prod, rd,
                   quota, reads, added, addedN, overlap, hist, sinceAdd, need>>

\* r.index = (r.index + 1) % gran
AvgAdvance ==
    /\ Alive
    /\ kind = "MovingAverage"
    /\ rot.pc = "adv"
    /\ index' = NextIndex(index, gran)
    /\ rot' = [rot EXCEPT !.pc = "swapS"]
    /\ UNCHANGED <<rpcVars, handlerVars, snap, txt, kind, interval, gran, rateFields, avgFields, prod, rd, quota,
                   reads, ghosts>>

\* s := atomic.SwapInt64(&r.sums[r.index], 0)
AvgSwapSums ==
    /\ Alive
    /\ kind = "MovingAverage"
    /\ rot.pc = "swapS"
    /\ rot' = [rot EXCEPT !.pc = "swapC", !.s = LoadInt64(sums, index)]
    /\ sums' = SwapInt64(sums, index, 0)
    /\ UNCHANGED <<rpcVars, handlerVars, snap, txt, kind, interval, gran, index, rateFields, counts, otherSums,
                   otherCounts, prod, rd, quota, reads, ghosts>>

\* n := atomic.SwapInt64(&r.counts[r.index], 0)
AvgSwapCounts ==
    /\ Alive
    /\ kind = "MovingAverage"
    /\ rot.pc = "swapC"
    /\ rot' = [rot EXCEPT !.pc = "readS", !.n = LoadInt64(counts, index)]
    /\ counts' = SwapInt64(counts, index, 0)
    /\ UNCHANGED <<rpcVars, handlerVars, snap, txt, kind, interval, gran, index, rateFields, sums, otherSums,
                   otherCounts, prod, rd, quota, reads, ghosts>>

\* the operand r.sums[i] of line 58: a plain read
AvgReadOldSum ==
    /\ Alive
    /\ kind = "MovingAverage"
    /\ rot.pc = "readS"
    /\ rot' = [rot EXCEPT !.pc = "foldS", !.old = sums[rot.i]]
    /\ UNCHANGED <<rpcVars, handlerVars, snap, txt, kind, interval, gran, index, rateFields, avgFields, prod, rd,
                   quota, reads, ghosts>>

\* the assignment of line 58: r.otherSums = r.otherSums + (r.sums[i] - s)
AvgFoldSums ==
    /\ Alive
    /\ kind = "MovingAverage"
    /\ rot.pc = "foldS"
    /\ otherSums' = Fold(otherSums, rot.old, rot.s)
    /\ rot' = [rot EXCEPT !.pc = "readC", !.old = 0, !.s = 0]
    /\ UNCHANGED <<rpcVars, handlerVars, snap, txt, kind, interval, gran, index, rateFields, sums, counts,
                   otherCounts, prod, rd, quota, reads, ghosts>>

\* the operand r.counts[i] of line 59: a plain read
AvgReadOldCount ==
    /\ Alive
    /\ kind = "MovingAverage"
    /\ rot.pc = "readC"
    /\ rot' = [rot EXCEPT !.pc = "foldC", !.old = counts[rot.i]]
    /\ UNCHANGED <<rpcVars, handlerVars, snap, txt, kind, interval, gran, index, rateFields, avgFields, prod, rd,
                   quota, reads, ghosts>>

\* the assignment of line 59: r.otherCounts = r.otherCounts + (r.counts[i] - n)
AvgFoldCounts ==
    /\ Alive
    /\ kind = "MovingAverage"
    /\ rot.pc = "foldC"
    /\ otherCounts' = Fold(otherCounts, rot.old, rot.n)
    /\ rot' = WaitRot
    /\ UNCHANGED <<rpcVars, handlerVars, snap, txt, kind, interval, gran, index, rateFields, sums, counts,
                   otherSums, prod, rd, quota, reads, ghosts>>

\* Add(val): the index expression r.index of line 68, a plain read
AvgAddIndexSum(p, v) ==
    /\ Alive
    /\ kind = "MovingAverage"
    /\ prod[p].pc = "idle"
    /\ quota > 0
    /\ quota' = quota - 1
    /\ prod' = [prod EXCEPT ![p] = [pc |-> "addS", idx |-> index, val |-> v,
                                    n |-> 1]]
    /\ UNCHANGED <<rpcVars, handlerVars, snap, txt, kind, interval, gran, index, rateFields, avgFields, rot, rd,
                   reads, ghosts>>

\* Add(val): atomic.AddInt64(&r.sums[idx], val); idx stays the cell the value
\* went to until line 69 reads r.index again
AvgAddSum(p) ==
    /\ Alive
    /\ kind = "MovingAverage"
    /\ AtStep(p, "addS")
    /\ sums' = AtomicAddInt64(sums, prod[p].idx, prod[p].val)
    /\ prod' = [prod EXCEPT ![p].pc = "idxC", ![p].n = @ + 1]
    /\ UNCHANGED <<rpcVars, handlerVars, snap, txt, kind, interval, gran, index, rateFields, counts, otherSums,
                   otherCounts, rot, rd, quota, reads, ghosts>>

\* Add(val): the index expression r.index of line 69, a plain read
AvgAddIndexCount(p) ==
    /\ Alive
    /\ kind = "MovingAverage"
    /\ AtStep(p, "idxC")
    /\ prod' = [prod EXCEPT ![p].pc = "addC", ![p].idx = index, ![p].n = @ + 1]
    /\ UNCHANGED <<rpcVars, handlerVars, snap, txt, kind, interval, gran, index, rateFields, avgFields, rot, rd,
                   quota, reads, ghosts>>

\* Add(val): atomic.AddInt64(&r.counts[idx], 1), and the call returns
AvgAddCount(p) ==
    /\ Alive
    /\ kind = "MovingAverage"
    /\ AtStep(p, "addC")
    /\ counts' = AtomicAddInt64(counts, prod[p].idx, 1)
    /\ prod' = [prod EXCEPT ![p] = IdleProd]
    /\ added' = added + prod[p].val
    /\ addedN' = addedN + 1
    /\ UNCHANGED <<rpcVars, handlerVars, snap, txt, kind, interval, gran, index, rateFields, sums, otherSums,
                   otherCounts, rot, rd, quota, reads, rotated, overlap, hist,
                   sinceAdd, need>>

\* Average() is called, and reads the index expression r.index of line 75
AvgReadIndexSum ==
    /\ Alive
    /\ kind = "MovingAverage"
    /\ rd.pc \in {"idle", "done"}
    /\ reads > 0
    /\ reads' = reads - 1
    /\ rd' = [IdleRd EXCEPT !.pc = "loadS", !.idx = index, !.n = 1,
                            !.afterAdd = (addedN > 0)]
    /\ UNCHANGED <<rpcVars, handlerVars, snap, txt, kind, interval, gran, index, rateFields, avgFields, rot, prod,
                   quota, ghosts>>

\* s := atomic.LoadInt64(&r.sums[idx])
AvgLoadSum ==
    /\ Alive
    /\ kind = "MovingAverage"
    /\ rd.pc = "loadS"
    /\ rd' = [rd EXCEPT !.pc = "idxC", !.idx = 0, !.s = LoadInt64(sums, rd.idx),
                        !.n = @ + 1]
    /\ UNCHANGED <<rpcVars, handlerVars, snap, txt, kind, interval, gran, index, rateFields, avgFields, rot, prod,
                   quota, reads, ghosts>>

\* the index expression r.index of line 76, a plain read
AvgReadIndexCount ==
    /\ Alive
    /\ kind = "MovingAverage"
    /\ rd.pc = "idxC"
    /\ rd' = [rd EXCEPT !.pc = "loadC", !.idx = index, !.n = @ + 1]
    /\ UNCHANGED <<rpcVars, handlerVars, snap, txt, kind, interval, gran, index, rateFields, avgFields, rot, prod,
                   quota, reads, ghosts>>

\* n := atomic.LoadInt64(&r.counts[idx])
AvgLoadCount ==
    /\ Alive
    /\ kind = "MovingAverage"
    /\ rd.pc = "loadC"
    /\ rd' = [rd EXCEPT !.pc = "otherS", !.idx = 0,
                        !.c = LoadInt64(counts, rd.idx), !.n = @ + 1]
    /\ UNCHANGED <<rpcVars, handlerVars, snap, txt, kind, interval, gran, index, rateFields, avgFields, rot, prod,
                   quota, reads, ghosts>>

\* s += r.otherSums
AvgReadOtherSums ==
    /\ Alive
    /\ kind = "MovingAverage"
    /\ rd.pc = "otherS"
    /\ rd' = [rd EXCEPT !.pc = "otherC", !.s = @ + otherSums, !.n = @ + 1]
    /\ UNCHANGED <<rpcVars, handlerVars, snap, txt, kind, interval, gran, index, rateFields, avgFields, rot, prod,
                   quota, reads, ghosts>>

\* n += r.otherCounts
AvgReadOtherCounts ==
    /\ Alive
    /\ kind = "MovingAverage"
    /\ rd.pc = "otherC"
    /\ rd' = [rd EXCEPT !.pc = "ret", !.c = @ + otherCounts, !.n = @ + 1]
    /\ UNCHANGED <<rpcVars, handlerVars, snap, txt, kind, interval, gran, index, rateFields, avgFields, rot, prod,
                   quota, reads, ghosts>>

\* if n == 0 { return 0 }; return s / n (an integer division by zero panics)
AvgReturn ==
    /\ Alive
    /\ kind = "MovingAverage"
    /\ rd.pc = "ret"
    /\ rd' = IF ZeroGuard(rd.c) THEN [rd EXCEPT !.pc = "done", !.s = 0, !.res = 0]
             ELSE IF rd.c = 0 THEN [rd EXCEPT !.pc = "panicked"]
             ELSE [rd EXCEPT !.pc = "done", !.s = 0, !.res = Quo(rd.s, rd.c)]
    /\ UNCHANGED <<rpcVars, handlerVars, snap, txt, kind, interval, gran, index, rateFields, avgFields, rot, prod,
                   quota, reads, ghosts>>

\* -------------------------------------------------- ExpHandler.ServeHTTP
\* Every access of a field of the ExpHandler (didInit, reqCounters,
\* respCounters), every call on Stats and every loop over a counter slice is
\* one step; a range loop evaluates its slice once.  The fields are read and
\* written without synchronisation; Stats and the RateCounters synchronise
\* their own updates.

\* ServeHTTP is called: if !e.didInit { e.init() }
ServeTestInit(h) ==
    /\ srv[h].pc = "idle"
    /\ serves > 0
    /\ serves' = serves - 1
    /\ IF NeedsInit(h)
       THEN /\ srv' = [srv EXCEPT ![h].pc = "makeReq"]
            /\ inits' = inits + 1
       ELSE /\ srv' = [srv EXCEPT ![h].pc = "addRequests"]
            /\ inits' = inits
    /\ UNCHANGED <<rpcVars, counterVars, stats, published, didInit, reqCounters,
                   respCounters, rcAdds, served, handlerPanics>>

\* init(): e.reqCounters = make([]*RateCounter, 0, len(e.Durations))
InitMakeReq(h) ==
    /\ srv[h].pc = "makeReq"
    /\ reqCounters' = <<>>
    /\ srv' = [srv EXCEPT ![h].pc = "makeResp"]
    /\ UNCHANGED <<rpcVars, counterVars, stats, published, didInit, respCounters, rcAdds,
                   serves, served, handlerPanics, inits>>

\* init(): e.respCounters = make(...); the loop over e.Durations begins
InitMakeResp(h) ==
    /\ srv[h].pc = "makeResp"
    /\ respCounters' = <<>>
    /\ srv' = [srv EXCEPT ![h].pc = "range", ![h].todo = Labels]
    /\ UNCHANGED <<rpcVars, counterVars, stats, published, didInit, reqCounters, rcAdds,
                   serves, served, handlerPanics, inits>>

\* init(): the next key of the loop; r1 := NewRateCounter(dur);
\* r2 := NewRateCounter(dur)
InitNewCounters(h) ==
    /\ srv[h].pc = "range"
    /\ \E l \in srv[h].todo :
          srv' = [srv EXCEPT ![h].pc = "setReq", ![h].key = l,
                             ![h].todo = @ \ {l},
                             ![h].r1 = Len(rcAdds) + 1,
                             ![h].r2 = Len(rcAdds) + 2]
    /\ rcAdds' = rcAdds \o <<0, 0>>
    /\ UNCHANGED <<rpcVars, counterVars, stats, published, didInit, reqCounters,
                   respCounters, serves, served, handlerPanics, inits>>

\* init(): e.Stats.Set("requests_per_"+key, r1)
InitSetReq(h) ==
    /\ srv[h].pc = "setReq"
    /\ published' = [published EXCEPT ![ReqKey(srv[h].key)] = srv[h].r1]
    /\ srv' = [srv EXCEPT ![h].pc = "setResp"]
    /\ UNCHANGED <<rpcVars, counterVars, stats, didInit, reqCounters, respCounters, rcAdds,
                   serves, served, handlerPanics, inits>>

\* init(): e.Stats.Set("responses_per_"+key, r2)
InitSetResp(h) ==
    /\ srv[h].pc = "setResp"
    /\ published' = [published EXCEPT ![RespKey(srv[h].key)] = srv[h].r2]
    /\ srv' = [srv EXCEPT ![h].pc = "appendReq"]
    /\ UNCHANGED <<rpcVars, counterVars, stats, didInit, reqCounters, respCounters, rcAdds,
                   serves, served, handlerPanics, inits>>

\* init(): e.reqCounters = append(e.reqCounters, r1)
InitAppendReq(h) ==
    /\ srv[h].pc = "appendReq"
    /\ reqCounters' = Append(reqCounters, srv[h].r1)
    /\ srv' = [srv EXCEPT ![h].pc = "appendResp"]
    /\ UNCHANGED <<rpcVars, counterVars, stats, published, didInit, respCounters, rcAdds,
                   serves, served, handlerPanics, inits>>

\* init(): e.respCounters = append(e.respCounters, r2)
InitAppendResp(h) ==
    /\ srv[h].pc = "appendResp"
    /\ respCounters' = Append(respCounters, srv[h].r2)
    /\ srv' = [srv EXCEPT ![h].pc = "range", ![h].key = "", ![h].r1 = 0,
                          ![h].r2 = 0]
    /\ UNCHANGED <<rpcVars, counterVars, stats, published, didInit, reqCounters, rcAdds,
                   serves, served, handlerPanics, inits>>

\* init(): the loop is over; e.didInit = true
InitSetDidInit(h) ==
    /\ srv[h].pc = "range"
    /\ srv[h].todo = {}
    /\ didInit' = TRUE
    /\ srv' = [srv EXCEPT ![h].pc = "addRequests"]
    /\ UNCHANGED <<rpcVars, counterVars, stats, published, reqCounters, respCounters,
                   rcAdds, serves, served, handlerPanics, inits>>

\* e.Stats.Add("requests", 1)
AddRequests(h) ==
    /\ srv[h].pc = "addRequests"
    /\ stats' = StatsAdd(stats, "requests", 1)
    /\ srv' = [srv EXCEPT ![h].pc = "rangeReq"]
    /\ UNCHANGED <<rpcVars, counterVars, published, didInit, reqCounters, respCounters,
                   rcAdds, serves, served, handlerPanics, inits>>

\* for _, rc := range e.reqCounters { rc.Add(1) }
RangeReqCounters(h) ==
    /\ srv[h].pc = "rangeReq"
    /\ rcAdds' = AddToAll(rcAdds, reqCounters)
    /\ srv' = [srv EXCEPT ![h].pc = "handler"]
    /\ UNCHANGED <<rpcVars, counterVars, stats, published, didInit, reqCounters,
                   respCounters, serves, served, handlerPanics, inits>>

\* code := e.HandlerFunc(w, r) returns
HandlerReturns(h, code) ==
    /\ srv[h].pc = "handler"
    /\ srv' = [srv EXCEPT ![h].pc = "addResponses", ![h].code = code]
    /\ UNCHANGED <<rpcVars, counterVars, stats, published, didInit, reqCounters,
                   respCounters, rcAdds, serves, served, handlerPanics, inits>>

\* e.HandlerFunc(w, r) panics with a non-nil value: the deferred function
\* runs and recover() returns the value
HandlerPanics(h) ==
    /\ srv[h].pc = "handler"
    /\ srv' = [srv EXCEPT ![h].pc = "addPanics"]
    /\ handlerPanics' = handlerPanics + 1
    /\ UNCHANGED <<rpcVars, counterVars, stats, published, didInit, reqCounters,
                   respCounters, rcAdds, serves, served, inits>>

\* e.Stats.Add("responses", 1) after the handler returned
AddResponses(h) ==
    /\ srv[h].pc = "addResponses"
    /\ stats' = StatsAdd(stats, "responses", 1)
    /\ srv' = [srv EXCEPT ![h].pc = "rangeResp"]
    /\ UNCHANGED <<rpcVars, counterVars, published, didInit, reqCounters, respCounters,
                   rcAdds, serves, served, handlerPanics, inits>>

\* for _, rc := range e.respCounters { rc.Add(1) } after the handler returned
RangeRespCounters(h) ==
    /\ srv[h].pc = "rangeResp"
    /\ rcAdds' = AddToAll(rcAdds, respCounters)
    /\ srv' = [srv EXCEPT ![h].pc = "addCode"]
    /\ UNCHANGED <<rpcVars, counterVars, stats, published, didInit, reqCounters,
                   respCounters, serves, served, handlerPanics, inits>>

\* switch code: e.Stats.Add("responses.<code>", 1); ServeHTTP returns (the
\* deferred function finds nothing to recover)
AddCode(h) ==
    /\ srv[h].pc = "addCode"
    /\ stats' = StatsAdd(stats, CodeKey(srv[h].code), 1)
    /\ srv' = [srv EXCEPT ![h] = IdleSrv]
    /\ served' = served + 1
    /\ UNCHANGED <<rpcVars, counterVars, published, didInit, reqCounters, respCounters,
                   rcAdds, serves, handlerPanics, inits>>

\* the deferred function: e.Stats.Add("panics", 1)
PanicAddPanics(h) ==
    /\ srv[h].pc = "addPanics"
    /\ stats' = StatsAdd(stats, "panics", 1)
    /\ srv' = [srv EXCEPT ![h].pc = "panicAddResponses"]
    /\ UNCHANGED <<rpcVars, counterVars, published, didInit, reqCounters, respCounters,
                   rcAdds, serves, served, handlerPanics, inits>>

\* the deferred function: e.Stats.Add("responses", 1)
PanicAddResponses(h) ==
    /\ srv[h].pc = "panicAddResponses"
    /\ stats' = StatsAdd(stats, "responses", 1)
    /\ srv' = [srv EXCEPT ![h].pc = "panicRangeResp"]
    /\ UNCHANGED <<rpcVars, counterVars, published, didInit, reqCounters, respCounters,
                   rcAdds, serves, served, handlerPanics, inits>>

\* the deferred function: for _, rc := range e.respCounters { rc.Add(1) }
PanicRangeRespCounters(h) ==
    /\ srv[h].pc = "panicRangeResp"
    /\ rcAdds' = AddToAll(rcAdds, respCounters)
    /\ srv' = [srv EXCEPT ![h].pc = "panicAdd500"]
    /\ UNCHANGED <<rpcVars, counterVars, stats, published, didInit, reqCounters,
                   respCounters, serves, served, handlerPanics, inits>>

\* the deferred function: e.Stats.Add("responses.500", 1); http.Error writes
\* the reply and ServeHTTP returns
PanicAdd500(h) ==
    /\ srv[h].pc = "panicAdd500"
    /\ stats' = StatsAdd(stats, "responses.500", 1)
    /\ srv' = [srv EXCEPT ![h] = IdleSrv]
    /\ served' = served + 1
    /\ UNCHANGED <<rpcVars, counterVars, published, didInit, reqCounters, respCounters,
                   rcAdds, serves, handlerPanics, inits>>

ExpHandlerInit(h) ==
    InitMakeReq(h) \/ InitMakeResp(h) \/ InitNewCounters(h) \/ InitSetReq(h)
    \/ InitSetResp(h) \/ InitAppendReq(h) \/ InitAppendResp(h)
    \/ InitSetDidInit(h)

ServeHTTP(h) ==
    ServeTestInit(h) \/ ExpHandlerInit(h) \/ AddRequests(h) \/ RangeReqCounters(h)
    \/ (\E code \in Codes : HandlerReturns(h, code)) \/ HandlerPanics(h)
    \/ AddResponses(h) \/ RangeRespCounters(h) \/ AddCode(h)
    \/ PanicAddPanics(h) \/ PanicAddResponses(h) \/ PanicRangeRespCounters(h)
    \/ PanicAdd500(h)

\* ---------------------------------------- ExpRPCServer: record calls
\* net/rpc reads the requests of a connection one after the other
\* (ReadRequestHeader, which calls recordRequest) and writes each response
\* from a goroutine of its own (WriteResponse, which calls recordResponse),
\* one response at a time per connection.  Every access of the maps rates and
\* startTimes is one step.

\* a request with the connection's next Seq is decoded; recordRequest:
\* reqRate.Add(1); rpcStats.Add("requests", 1);
\* rpcStats.Add("requests."+r.ServiceMethod, 1)
RecordRequestStats(c, m) ==
    /\ conn[c].rpc = "idle"
    /\ calls > 0
    /\ calls' = calls - 1
    /\ rpcStats' = [rpcStats EXCEPT ![<<"requests.per_min">>] = @ + 1,
                                    ![<<"requests">>] = @ + 1,
                                    ![<<"requests.", m>>] = @ + 1]
    /\ conn' = [conn EXCEPT ![c].rpc = "lookup", ![c].seq = conn[c].next,
                            ![c].method = m, ![c].next = @ + 1]
    /\ UNCHANGED <<counterVars, handlerVars, startTimes, rates, rateAdds, now>>

\* recordRequest: rc, found := w.rates[r.ServiceMethod]
RecordRequestLookup(c) ==
    /\ conn[c].rpc = "lookup"
    /\ conn' = [conn EXCEPT ![c].rpc = IF rates[conn[c].method] = 0 THEN "insert"
                                       ELSE "add",
                            ![c].rc = rates[conn[c].method]]
    /\ UNCHANGED <<counterVars, handlerVars, startTimes, rates, rateAdds,
                   rpcStats, now, calls>>

\* recordRequest: rc = NewRateCounter(w.Interval);
\* w.rates[r.ServiceMethod] = rc; rpcStats.Set(...)
RecordRequestInsert(c) ==
    /\ conn[c].rpc = "insert"
    /\ rateAdds' = Append(rateAdds, 0)
    /\ rates' = [rates EXCEPT ![conn[c].method] = Len(rateAdds) + 1]
    /\ conn' = [conn EXCEPT ![c].rpc = "add", ![c].rc = Len(rateAdds) + 1]
    /\ UNCHANGED <<counterVars, handlerVars, startTimes, rpcStats, now, calls>>

\* recordRequest: rc.Add(1)
RecordRequestAdd(c) ==
    /\ conn[c].rpc = "add"
    /\ rateAdds' = [rateAdds EXCEPT ![conn[c].rc] = @ + 1]
    /\ conn' = [conn EXCEPT ![c].rpc = "store", ![c].rc = 0]
    /\ UNCHANGED <<counterVars, handlerVars, startTimes, rates, rpcStats, now,
                   calls>>

\* recordRequest: w.startTimes[r.Seq] = time.Now(); the request goes on to its
\* service method
RecordRequestStore(c) ==
    /\ conn[c].rpc = "store"
    /\ startTimes' = MapStore(startTimes, SeqKey(c, conn[c].seq), now)
    /\ now' = now + 1
    /\ conn' = [conn EXCEPT ![c].rpc = "idle", ![c].method = "", ![c].seq = 0,
                            ![c].pending = @ \cup {[seq |-> conn[c].seq,
                                                    at |-> now,
                                                    method |-> conn[c].method]}]
    /\ UNCHANGED <<counterVars, handlerVars, rates, rateAdds, rpcStats, calls>>

\* a service method has ended (with an error or without); recordResponse:
\* elapsed := time.Now().Sub(w.startTimes[r.Seq])
RecordResponseElapsed(c, err) ==
    /\ conn[c].wpc = "idle"
    /\ \E q \in conn[c].pending :
          conn' = [conn EXCEPT ![c].wpc = "stats", ![c].wseq = q.seq,
                               ![c].wat = q.at, ![c].wmethod = q.method,
                               ![c].werr = err,
                               ![c].from = MapLoad(startTimes,
                                                   SeqKey(c, q.seq)),
                               ![c].pending = @ \ {q}]
    /\ UNCHANGED <<counterVars, handlerVars, startTimes, rates, rateAdds,
                   rpcStats, now, calls>>

\* recordResponse: respRate.Add(1); rpcStats.Add("responses", 1);
\* rpcStats.Add("responses."+r.ServiceMethod, 1); if r.Error != "" { ... }
RecordResponseStats(c) ==
    /\ conn[c].wpc = "stats"
    /\ LET m == conn[c].wmethod
           e == IF conn[c].werr THEN 1 ELSE 0
       IN  rpcStats' = [rpcStats EXCEPT ![<<"responses.per_min">>] = @ + 1,
                                        ![<<"responses">>] = @ + 1,
                                        ![<<"responses.", m>>] = @ + 1,
                                        ![<<"responses.error">>] = @ + e,
                                        ![<<"responses.", m, ".error">>] = @ + e]
    /\ conn' = [conn EXCEPT ![c].wpc = "delete", ![c].werr = FALSE,
                            ![c].wmethod = ""]
    /\ UNCHANGED <<counterVars, handlerVars, startTimes, rates, rateAdds, now,
                   calls>>

\* recordResponse: delete(w.startTimes, r.Seq); the response is written
RecordResponseDelete(c) ==
    /\ conn[c].wpc = "delete"
    /\ startTimes' = MapDelete(startTimes, SeqKey(c, conn[c].wseq))
    /\ conn' = [conn EXCEPT ![c].wpc = "idle", ![c].wseq = 0, ![c].wat = 0,
                            ![c].from = 0]
    /\ UNCHANGED <<counterVars, handlerVars, rates, rateAdds, rpcStats, now,
                   calls>>

recordRequest(c) ==
    (\E m \in Methods : RecordRequestStats(c, m)) \/ RecordRequestLookup(c)
    \/ RecordRequestInsert(c) \/ RecordRequestAdd(c) \/ RecordRequestStore(c)

recordResponse(c) ==
    (\E err \in BOOLEAN : RecordResponseElapsed(c, err))
    \/ RecordResponseStats(c) \/ RecordResponseDelete(c)

\* String(): the Rate() or Average() call it made has returned rd.res, which
\* strconv.FormatInt renders
String ==
    /\ Alive
    /\ rd.pc = "done"
    /\ txt.pc = "idle"
    /\ txt' = [pc |-> "done", v |-> rd.res, s |-> FormatInt(rd.res)]
    /\ UNCHANGED <<rpcVars, handlerVars, snap, kind, interval, gran, index, rateFields, avgFields, rot, prod,
                   rd, quota, reads, ghosts>>

\* ---------------------------------------------------- specifications
\* no RateCounter or MovingAverage of its own is under observation
NoCounter ==
    /\ kind = "none"
    /\ interval = 0
    /\ gran = 0
    /\ index = 0
    /\ bins = MakeCells(0)
    /\ others = 0
    /\ sums = MakeCells(0)
    /\ counts = MakeCells(0)
    /\ otherSums = 0
    /\ otherCounts = 0
    /\ rot = NewRot(0, 0)
    /\ prod = [p \in Producers |-> IdleProd]
    /\ rd = IdleRd
    /\ quota = 0
    /\ reads = 0
    /\ added = 0
    /\ addedN = 0
    /\ rotated = FALSE
    /\ overlap = FALSE
    /\ hist = <<>>
    /\ sinceAdd = 0
    /\ need = MakeCells(0)
    /\ txt = NoText
    /\ snap = NoSnap

RateRotation == RateTick \/ RateAdvance \/ RateReadOld \/ RateSwap \/ RateFold

RateProducer(p) == (\E v \in RateVals : RateAddIndex(p, v)) \/ RateAddAtomic(p)

RateReader == RateCall \/ RateReadOthers \/ RateReadIndex \/ RateLoad \/ RateReturn

AvgRotation == AvgTick \/ AvgAdvance \/ AvgSwapSums \/ AvgSwapCounts
               \/ AvgReadOldSum \/ AvgFoldSums \/ AvgReadOldCount \/ AvgFoldCounts

AvgProducer(p) == (\E v \in AvgVals : AvgAddIndexSum(p, v)) \/ AvgAddSum(p)
                  \/ AvgAddIndexCount(p) \/ AvgAddCount(p)

AvgReader == AvgReadIndexSum \/ AvgLoadSum \/ AvgReadIndexCount \/ AvgLoadCount
             \/ AvgReadOtherSums \/ AvgReadOtherCounts \/ AvgReturn

\* a RateCounter, its producers and its rotation goroutine
Init == InitRateWith(MaxAdds, 0)

Next == StartTicker \/ RateRotation \/ (\E p \in Producers : RateProducer(p))

Spec == Init /\ [][Next]_vars

\* either type and its producers, over a stretch in which the ticker does
\* not fire (an interval far longer than the run)
InitQuiet == InitRateWith(MaxQuietAdds, 0) \/ InitAvgWith(MaxQuietAdds, 0)

NextQuiet == StartTicker
             \/ (\E p \in Producers : RateProducer(p) \/ AvgProducer(p))

SpecQuiet == InitQuiet /\ [][NextQuiet]_vars

\* either type, its producers, its rotation goroutine and one reader
InitRead == InitRateWith(MaxAddsRead, MaxReads)
            \/ InitAvgWith(MaxAvgAddsRead, MaxReads)

NextRead == StartTicker \/ RateRotation \/ AvgRotation
            \/ (\E p \in Producers : RateProducer(p) \/ AvgProducer(p))
            \/ RateReader \/ AvgReader

SpecRead == InitRead /\ [][NextRead]_vars

\* either type, its producers and one String() call, over a stretch in which
\* the ticker does not fire
InitText == InitRateWith(MaxTextAdds, MaxReads) \/ InitAvgWith(MaxTextAdds, MaxReads)

NextText == StartTicker
            \/ (\E p \in Producers :
                   \/ \E v \in TextVals : RateAddIndex(p, v) \/ AvgAddIndexSum(p, v)
                   \/ RateAddAtomic(p)
                   \/ AvgAddSum(p) \/ AvgAddIndexCount(p) \/ AvgAddCount(p))
            \/ RateReader \/ AvgReader
            \/ String

SpecText == InitText /\ [][NextText]_vars

\* a cumulative MovingAverage, its producers and one reader
InitCumulative ==
    /\ InitAvgWith(MaxCumAdds, MaxReads)
    /\ IsDegenerate(interval, gran)

NextCumulative == (\E p \in Producers : AvgProducer(p)) \/ AvgReader

SpecCumulative == InitCumulative /\ [][NextCumulative]_vars

\* an ExpHandler and the goroutines that serve its requests
InitHandler == NoCounter /\ InitHandlerWith(MaxServes) /\ InitRPCWith(0)

NextHandler == \E h \in Handlers : ServeHTTP(h)

SpecHandler == InitHandler /\ [][NextHandler]_vars

\* an ExpRPCServer and the connections it serves
InitRPC == NoCounter /\ InitHandlerWith(0) /\ InitRPCWith(MaxCalls)

NextRPC == \E c \in Conns : recordRequest(c) \/ recordResponse(c)

SpecRPC == InitRPC /\ [][NextRPC]_vars

\* ------------------------------------------------------------ claims
Windowed == interval > 0 /\ gran > 1
Quiescent == ~AddInProgress /\ ~RotInProgress

\* C1: whenever no Add and no rotation step is in progress, the carry plus
\* the active cell equals the sum of all cells (no added value lost or
\* taken out of the carry without having been in it), for the bins of a
\* RateCounter and for the sums and counts of a MovingAverage.
C1_NothingLostOrDoubled ==
    Quiescent =>
        IF kind = "RateCounter"
        THEN others + bins[index] = SumCells(bins, NumBuckets(interval, gran))
        ELSE /\ otherSums + sums[index] = SumCells(sums, NumBuckets(interval, gran))
             /\ otherCounts + counts[index]
                    = SumCells(counts, NumBuckets(interval, gran))

\* C2: a Rate() call returns at least what the Adds completed before it
\* started left in the cells, less what the rotation evicted (swapped to
\* zero) while it ran.  Every value added is positive.
C2_ReadIncludesCompletedAdds ==
    (kind = "RateCounter" /\ rd.pc = "done")
        => rd.res >= SumCells(need, NumBuckets(interval, gran))

\* C3: with no tick taken and every Add completed, Rate() is the sum of all
\* added values.
C3_ConcurrentAddConservation ==
    (kind = "RateCounter" /\ ~rotated /\ ~AddInProgress) => Rate = added

C3_Witness ==
    /\ kind = "RateCounter"
    /\ Windowed
    /\ ~rotated
    /\ ~AddInProgress
    /\ addedN = MaxQuietAdds
    /\ added > MaxQuietAdds

\* C4: a RateCounter built with interval <= 0 or granularity <= 1 has no
\* rotation goroutine, its index and others never change, and Rate() is the
\* sum of every value ever added.
C4_CumulativeNeverResets ==
    (kind = "RateCounter" /\ (interval <= 0 \/ gran <= 1))
        => /\ rot.pc = "none"
           /\ index = 0
           /\ others = 0
           /\ Rate = added

C4_Witness ==
    /\ kind = "RateCounter"
    /\ interval > 0
    /\ gran = 1
    /\ addedN = MaxAdds
    /\ Rate = added
    /\ added > MaxAdds

\* C5: on a windowed RateCounter whose Adds never overlapped a rotation step,
\* between two rotation steps Rate() is the sum of the values added in the
\* current bucket period and the gran - 1 periods before it.
C5_TrailingWindowSum ==
    (kind = "RateCounter" /\ Windowed /\ ~overlap /\ ~RotInProgress)
        => /\ Len(hist) = gran
           /\ Rate = SumSeq(hist)

\* a value added gran - 1 ticks ago is still counted, and later ones too
C5_Witness ==
    /\ kind = "RateCounter"
    /\ Windowed
    /\ gran = MaxGran
    /\ ~overlap
    /\ rot.pc = "wait"
    /\ hist[gran] > 0
    /\ hist[1] > 0
    /\ Rate = hist[1] + hist[gran]

\* C6: on a windowed RateCounter, once gran ticks have been taken and
\* completed since the last Add completed, and no Add is in progress,
\* Rate() is 0.
C6_WindowedDecay ==
    (kind = "RateCounter" /\ Windowed /\ Quiescent /\ sinceAdd >= gran)
        => Rate = 0

\* C7: construction never fails: the rotation goroutine never panics on its
\* ticker period interval / gran.
C7_ConstructionNeverFails == rot.pc # "panicked"

\* q is the quotient a / b truncated toward zero (b > 0)
IsTruncatedQuotient(q, a, b) ==
    /\ Abs(q) * b <= Abs(a)
    /\ Abs(a) < (Abs(q) + 1) * b
    /\ q # 0 => ((q < 0) = (a < 0))

\* C8: with no tick taken and every Add completed, Average() is the sum of
\* the added values divided by the number of Adds, truncated toward zero.
C8_AverageIsTruncatedMean ==
    (kind = "MovingAverage" /\ ~rotated /\ ~AddInProgress /\ addedN > 0)
        => IsTruncatedQuotient(Average, added, addedN)

\* -3, -3 and 2 were added: the mean -4/3 truncates to -1
C8_Witness ==
    /\ kind = "MovingAverage"
    /\ Windowed
    /\ ~rotated
    /\ ~AddInProgress
    /\ addedN = 3
    /\ added = -4
    /\ Average = -1

\* C9: Average() never panics on its division, and returns 0 whenever the
\* count it computed is 0.
C9_AverageNeverDividesByZero ==
    kind = "MovingAverage"
        => /\ rd.pc # "panicked"
           /\ (rd.pc = "done" /\ rd.c = 0) => rd.res = 0

\* a zero count computed after an Add and a tick
C9_Witness ==
    /\ kind = "MovingAverage"
    /\ rd.pc = "done"
    /\ rd.c = 0
    /\ rd.res = 0
    /\ addedN > 0
    /\ rotated

\* the steps a call takes after its first one
ProducerStep(p) == RateAddAtomic(p) \/ AvgAddSum(p) \/ AvgAddIndexCount(p)
                   \/ AvgAddCount(p)
ReaderStep == RateReadOthers \/ RateReadIndex \/ RateLoad \/ RateReturn
              \/ AvgLoadSum \/ AvgReadIndexCount \/ AvgLoadCount
              \/ AvgReadOtherSums \/ AvgReadOtherCounts \/ AvgReturn
\* memory operations of one call: an index read and an atomic operation per
\* field for Add, and the read of the carry besides for Rate()/Average()
AddSteps == IF kind = "RateCounter" THEN 2 ELSE 4
ReadSteps == IF kind = "RateCounter" THEN 3 ELSE 6

\* C10: while the process runs, a call of Add, Rate() or Average() that is in
\* progress can always take its next step, whatever the other producers, the
\* reader and the rotation goroutine are doing, and it ends within a fixed
\* number of its own steps.
C10_CallsNeverBlock ==
    Alive =>
        /\ \A p \in Producers :
              prod[p].pc # "idle"
                  => (prod[p].n < AddSteps /\ ENABLED ProducerStep(p))
        /\ rd.pc \notin {"idle", "done"} => ENABLED ReaderStep
        /\ rd.n <= ReadSteps

\* an Add, a rotation step and a read are all in progress
C10_Witness ==
    /\ \E p \in Producers : prod[p].pc # "idle"
    /\ RotInProgress
    /\ rd.pc \notin {"idle", "done", "panicked"}
    /\ rd.n > 0

\* the index set of the instance's bucket slices
CellIndexes == IF kind = "RateCounter" THEN DOMAIN bins ELSE DOMAIN sums

ShapeAsConstructed ==
    /\ CellIndexes = 0..(NumBuckets(interval, gran) - 1)
    /\ kind = "MovingAverage" => DOMAIN counts = DOMAIN sums
    /\ index \in CellIndexes
    /\ \A p \in Producers : prod[p].idx \in CellIndexes
    /\ rd.idx \in CellIndexes
    /\ (interval <= 0 \/ gran <= 1) => (rot.pc = "none" /\ index = 0)
    /\ Windowed => rot.pc # "none"

\* C11: the bucket slices keep the length given at construction (one cell in
\* cumulative mode, gran cells in windowed mode); the index, and every index
\* Add and Rate()/Average() have read, is inside the slices; a cumulative
\* instance has no rotation goroutine and index 0, a windowed one has its
\* goroutine; the constructor arguments never change and only the
\* goroutine's step r.index = (r.index + 1) % gran writes the index.
C11_ShapeFixedAtConstruction ==
    /\ []ShapeAsConstructed
    /\ [][/\ kind' = kind
          /\ interval' = interval
          /\ gran' = gran
          /\ index' # index => (rot.pc = "adv" /\ rot'.pc # "adv")]_vars

\* the index has reached the last cell of the largest windowed instance while
\* a read is using it
C11_Witness ==
    /\ Windowed
    /\ gran = MaxGran
    /\ index = MaxGran - 1
    /\ rd.pc \notin {"idle", "done", "panicked"}
    /\ rd.idx = MaxGran - 1
    /\ addedN > 0

\* a base-10 integer text: an optional minus sign, then one or more digits, the
\* first of which is 0 only when it is the only one
IsPlainDecimal(s) ==
    /\ s # <<>>
    /\ LET body == IF s[1] = "-" THEN Tail(s) ELSE s
       IN  /\ body # <<>>
           /\ \A k \in 1..Len(body) : IsDigit(body[k])
           /\ Len(body) > 1 => body[1] # "0"

\* C12: the text String() returns for the value V its Rate() or Average()
\* call returned is a non-empty base-10 integer text without leading zeros,
\* and it parses back to V.
C12_StringRoundTrip ==
    txt.pc = "done" => (IsPlainDecimal(txt.s) /\ ParseInt(txt.s) = txt.v)

\* a negative value of three digits with a zero inside
C12_Witness ==
    /\ txt.pc = "done"
    /\ txt.v = -105
    /\ txt.s = <<"-", "1", "0", "5">>
    /\ ParseInt(txt.s) = -105

\* C13: a RateCounter tick that no Add overlaps ends, at its assignment to
\* others, with the index advanced by one modulo gran, the new active cell 0,
\* every other cell as the tick found it, others grown by the old active
\* cell's value less the value v swapped out, and Rate() smaller by v.
C13_TickEffect ==
    [][(rot.pc = "foldRS" /\ snap.clean /\ rot'.pc = "wait")
        => LET i == snap.index
               v == snap.bins[NextIndex(i, gran)]
           IN  /\ index' = NextIndex(i, gran)
               /\ rot.s = v
               /\ bins'[index'] = 0
               /\ \A k \in DOMAIN bins : k # index' => bins'[k] = snap.bins[k]
               /\ others' = snap.others + snap.bins[i] - v
               /\ others' + bins'[index']
                      = (snap.others + snap.bins[i]) - v]_vars

\* a tick no Add overlaps is about to end: it evicts a non-zero value while
\* the cell it leaves holds another
C13_Witness ==
    /\ rot.pc = "foldRS"
    /\ snap.clean
    /\ rot.s > 0
    /\ snap.bins[snap.index] > 0
    /\ snap.bins[snap.index] # rot.s

\* C14: the index MovingAverage.Add reads for its count (line 69) is the
\* index it read for its value (line 68), so that both atomic adds of one
\* call go to the same cell.
C14_SampleInOneBucket ==
    [][\A p \in Producers :
          (kind = "MovingAverage" /\ prod[p].pc = "idxC" /\ prod'[p].pc = "addC")
              => prod'[p].idx = prod[p].idx]_vars

\* C15: every value handed to RateCounter.Add being positive, what Rate()
\* computes, others plus the active cell, is never negative.
C15_RateNeverNegative == kind = "RateCounter" => Rate >= 0

\* C16: every value handed to RateCounter.Add being positive, a Rate() call
\* returns at most the sum of the values added by then, also when rotation
\* steps run between its reads of others, of the index and of the cell.
C16_ReadNeverDoubleCounts ==
    (kind = "RateCounter" /\ rd.pc = "done") => rd.res <= added

LeastVal == CHOOSE v \in AvgVals : \A w \in AvgVals : v <= w
GreatestVal == CHOOSE v \in AvgVals : \A w \in AvgVals : v >= w

\* C17: on a cumulative MovingAverage, an Average() call made after some Add
\* has completed returns a value between the least and the greatest value
\* any Add is given, also when it runs while other Adds do.
C17_AverageWithinAddedValues ==
    (/\ kind = "MovingAverage"
     /\ IsDegenerate(interval, gran)
     /\ rd.pc = "done"
     /\ rd.afterAdd)
        => (LeastVal <= rd.res /\ rd.res <= GreatestVal)

NoRequestInFlight == \A h \in Handlers : srv[h].pc = "idle"

\* the Add(1) calls received by the RateCounter that Stats holds under key k
PublishedAdds(k) == IF published[k] = 0 THEN 0 ELSE rcAdds[published[k]]

\* C18: "responses" never exceeds "requests", and neither does a
\* responses_per_<label> counter its requests_per_<label> counter; and when
\* no ServeHTTP call is in progress, "requests", "responses" and every
\* requests_per_<label> and responses_per_<label> counter in Stats have been
\* incremented once per call served, and "panics" once per handler panic,
\* each of them also counted under "responses.500".
C18_OneRequestOneResponse ==
    /\ stats["responses"] <= stats["requests"]
    /\ \A l \in Labels : PublishedAdds(RespKey(l)) <= PublishedAdds(ReqKey(l))
    /\ NoRequestInFlight =>
          /\ stats["requests"] = served
          /\ stats["responses"] = served
          /\ stats["panics"] = handlerPanics
          /\ stats["panics"] <= stats["responses.500"]
          /\ \A l \in Labels :
                /\ PublishedAdds(ReqKey(l)) = served
                /\ PublishedAdds(RespKey(l)) = served

SliceElems(slice) == {slice[k] : k \in DOMAIN slice}

\* C19: init() is called at most once; at most one requests_per_<label> and
\* one responses_per_<label> RateCounter are ever made per entry of
\* Durations; and when no ServeHTTP call is in progress after the first one,
\* the counters requests add to (reqCounters, respCounters) are the ones
\* Stats holds.
C19_InitRunsOnce ==
    /\ inits <= 1
    /\ Len(rcAdds) <= 2 * Cardinality(Labels)
    /\ (NoRequestInFlight /\ served > 0) =>
          /\ SliceElems(reqCounters) = {published[ReqKey(l)] : l \in Labels}
          /\ SliceElems(respCounters) = {published[RespKey(l)] : l \in Labels}

\* C20: while recordResponse runs for a request, the start time it took from
\* startTimes[r.Seq] is the time that request's own recordRequest stored,
\* whatever the other connections of the ExpRPCServer send; and once it has
\* ended, every request still awaiting its response has its entry.
C20_LatencyFromOwnRequest ==
    \A c \in Conns :
        /\ conn[c].wpc \in {"stats", "delete"} => conn[c].from = conn[c].wat
        /\ \A q \in conn[c].pending :
              (\A d \in Conns : conn[d].wpc = "idle" /\ conn[d].rpc = "idle")
                  => SeqKey(c, q.seq) \in DOMAIN startTimes

\* the goroutines that call into one ExpRPCServer: per connection, the loop
\* that reads requests and the goroutine that writes a response
RpcGoroutines == Conns \X {"request", "response"}

\* goroutine g has reached a write of startTimes (the assignment of line 49
\* or the delete of line 70)
WritesStartTimes(g) ==
    IF g[2] = "request" THEN ENABLED RecordRequestStore(g[1])
    ELSE ENABLED RecordResponseDelete(g[1])

\* goroutine g has reached the read of startTimes of line 53
ReadsStartTimes(g) ==
    g[2] = "response" /\ ENABLED (\E err \in BOOLEAN : RecordResponseElapsed(g[1], err))

\* goroutine g has reached the write of rates of line 45
WritesRates(g) == g[2] = "request" /\ ENABLED RecordRequestInsert(g[1])

\* goroutine g has reached the read of rates of line 42
ReadsRates(g) == g[2] = "request" /\ ENABLED RecordRequestLookup(g[1])

\* two goroutines have each reached an access of the same map, one of them a
\* write, and nothing orders the two accesses
MapRace ==
    \E g1, g2 \in RpcGoroutines :
        /\ g1 # g2
        /\ \/ WritesStartTimes(g1) /\ (WritesStartTimes(g2) \/ ReadsStartTimes(g2))
           \/ WritesRates(g1) /\ (WritesRates(g2) \/ ReadsRates(g2))

\* C21: no goroutine is about to write startTimes or rates while another
\* goroutine is about to read or write the same map.
C21_MapsNeverRaced == ~MapRace
====
